---- MODULE Spec2Model ----
(***************************************************************************)
(* State-machine model of the carousel: Carousel (carousel/core.js) and    *)
(* its extension SwipeCarousel (carousel/swipe.js).                        *)
(*                                                                         *)
(* The object's fields are variables; every public method, DOM event       *)
(* handler and interval callback is one action.  A handler that throws     *)
(* keeps the assignments it made before the throw (threw = TRUE).          *)
(***************************************************************************)
EXTENDS Integers, Sequences, FiniteSets, TLC

\* ---------------------------------------------------------------- bounds
MaxSlides == 3          \* slides in the page: 0..MaxSlides
MaxSlideTo == 3         \* data-slide-to of an indicator found in the page: -MaxSlideTo..MaxSlideTo

\* ------------------------------------------------------- program constants
swipeThreshold == 100   \* swipe.js: this.#swipeThreshold = 100
DefaultInterval == 5000 \* DEFAULT_SETTINGS.interval

NoTimer == 0            \* this.#timerId = null (interval handles are positive integers)

\* data-slide-to values that indicators already present in the page may carry
SlideToValues == (0 - MaxSlideTo)..MaxSlideTo

\* the #indicators-container the page may already hold: its children's data-slide-to
ExistingMarkups == {<< >>} \cup {<<v>> : v \in SlideToValues}

\* values of options.interval: none is rejected by the constructor
Intervals == {0, DefaultInterval}

\* e.code of keydown events: the three handled keys and one other key
KeyCodes == {"ArrowLeft", "ArrowRight", "Space", "Enter"}

\* pageX coordinates of pointer events
PageXs == {0, swipeThreshold - 1, swipeThreshold}

VARIABLES
  slideCount,     \* #SLIDES_COUNT = this.slides.length
  pauseOnHover,   \* this.pauseOnHover
  TIMER_INTERVAL, \* this.TIMER_INTERVAL
  hasContainer,   \* the page already holds an #indicators-container
  markup,         \* data-slide-to of the indicators that container holds (<< >> without one)
  inited,         \* init() has run: controls and indicators exist, listeners are attached
  currentSlide,   \* #currentSlide
  timerId,        \* #timerId
  isPlaying,      \* this.isPlaying
  timers,         \* handles of the intervals the host currently has scheduled
  startX,         \* #startX
  endX,           \* #endX
  pauseIcon,      \* #pauseIcon.style.opacity ("none" while #pauseIcon is null)
  playIcon,       \* #playIcon.style.opacity ("none" while #playIcon is null)
  activeSlides,   \* indices of the slides carrying class "active"
  activeIndicators, \* indices of the indicators carrying class "active"
  defaultPrevented, \* history: the last event had preventDefault() called on it
  lastEvent,      \* history: the method or event handled last
  lastNav,        \* history: the navigation that event performed ("none", "next", "prev", "goto", "auto")
  threw,          \* history: the last handler ended with an exception
  wasPlaying,     \* history: isPlaying before the last event
  pausedBy,       \* history: what cancelled auto-play last, until an explicit play()
  beforeCall,     \* history: #currentSlide before the last event, if that was next() or prev()
  runLen,         \* history: length of the run of calls of the same method, next() or prev(), ending now
  runStart        \* history: #currentSlide when that run began

vars == <<slideCount, pauseOnHover, TIMER_INTERVAL, hasContainer, markup, inited, currentSlide,
          timerId, isPlaying, timers, startX, endX, pauseIcon, playIcon, activeSlides,
          activeIndicators, defaultPrevented, lastEvent, lastNav, threw, wasPlaying, pausedBy,
          beforeCall, runLen, runStart>>

\* ---------------------------------------------------------------- helpers

\* JavaScript's % : the remainder takes the sign of the dividend
JsRem(a, b) == IF a >= 0 THEN a % b ELSE 0 - ((0 - a) % b)

Abs(x) == IF x < 0 THEN 0 - x ELSE x

\* children of #indicatorsContainer after init(): generated 0..n-1, or the page's own
indicatorChildren ==
  IF hasContainer THEN markup ELSE [i \in 1..slideCount |-> i - 1]

\* host: clearInterval(id)
clearInterval(ts, id) == ts \ {id}

\* host: setInterval returns a handle that is not in use
setInterval(ts) == CHOOSE h \in 1..(Cardinality(ts) + 1) : h \notin ts

\* the object and the host's timers at the start of a handler
self == [currentSlide |-> currentSlide, timerId |-> timerId, isPlaying |-> isPlaying,
         timers |-> timers, pauseIcon |-> pauseIcon, playIcon |-> playIcon,
         activeSlides |-> activeSlides, activeIndicators |-> activeIndicators,
         prevented |-> FALSE, threw |-> FALSE, nav |-> "none"]

\* ---------------------------------------------------------- Carousel methods

startTimer_noClear(s) ==
  LET h == setInterval(s.timers)
  IN [s EXCEPT !.timers = s.timers \cup {h}, !.timerId = h]

\* #startTimer()
startTimer(s) ==
  LET cleared == IF s.timerId # NoTimer THEN clearInterval(s.timers, s.timerId) ELSE s.timers
      h == setInterval(cleared)
  IN [s EXCEPT !.timers = cleared \cup {h}, !.timerId = h]

pause_noClear(s) == [s EXCEPT !.timerId = NoTimer, !.isPlaying = FALSE]

\* pause()
pause(s) ==
  [s EXCEPT !.timers = IF s.timerId # NoTimer THEN clearInterval(@, s.timerId) ELSE @,
            !.timerId = NoTimer,
            !.isPlaying = FALSE]

play_noFlag(s) == startTimer(s)

play_rewind(s) == [startTimer(s) EXCEPT !.isPlaying = TRUE, !.currentSlide = 0]

\* play()
play(s) == [startTimer(s) EXCEPT !.isPlaying = TRUE]

markActive_noRemove(s, new) ==
  IF s.threw THEN s
  ELSE IF s.currentSlide \notin 0..(slideCount - 1) \/ ~inited
          \/ s.currentSlide \notin 0..(Len(indicatorChildren) - 1)
       THEN [s EXCEPT !.threw = TRUE]
       ELSE [s EXCEPT !.currentSlide = new,
                      !.activeSlides = @ \cup ({new} \cap (0..(slideCount - 1))),
                      !.activeIndicators = @ \cup ({new} \cap (0..(Len(indicatorChildren) - 1))),
                      !.threw = new \notin 0..(slideCount - 1)
                                \/ new \notin 0..(Len(indicatorChildren) - 1)]

\* body of #gotoNth once the target index is computed: slides[i] / children[i]
\* undefined or #indicatorsContainer null raise a TypeError at that statement, the
\* statements before it have taken effect
markActive(s, new) ==
  IF s.threw THEN s
  ELSE IF s.currentSlide \notin 0..(slideCount - 1) THEN [s EXCEPT !.threw = TRUE]
  ELSE LET s1 == [s EXCEPT !.activeSlides = @ \ {s.currentSlide}]
       IN IF ~inited \/ s.currentSlide \notin 0..(Len(indicatorChildren) - 1)
          THEN [s1 EXCEPT !.threw = TRUE]
          ELSE LET s2 == [s1 EXCEPT !.activeIndicators = @ \ {s.currentSlide},
                                    !.currentSlide = new]
               IN IF new \notin 0..(slideCount - 1) THEN [s2 EXCEPT !.threw = TRUE]
                  ELSE LET s3 == [s2 EXCEPT !.activeSlides = @ \cup {new}]
                       IN IF new \notin 0..(Len(indicatorChildren) - 1)
                          THEN [s3 EXCEPT !.threw = TRUE]
                          ELSE [s3 EXCEPT !.activeIndicators = @ \cup {new}]

gotoNth_noWrap(s, n) == markActive(s, JsRem(n, slideCount))

gotoNth_clamp(s, n) ==
  markActive(s, IF n > slideCount - 1 THEN slideCount - 1 ELSE IF n < 0 THEN 0 ELSE n)

\* #gotoNth(n)
gotoNth(s, n) == markActive(s, JsRem(n + slideCount, slideCount))

next_pauseLast(s) ==
  LET g == gotoNth(s, s.currentSlide + 1)
  IN [(IF g.threw THEN g ELSE pause(g)) EXCEPT !.nav = "next"]

\* next()
next(s) ==
  LET p == pause(s)
  IN [gotoNth(p, p.currentSlide + 1) EXCEPT !.nav = "next"]

prev_forward(s) ==
  LET p == pause(s)
  IN [gotoNth(p, p.currentSlide + 1) EXCEPT !.nav = "prev"]

\* prev()
prev(s) ==
  LET p == pause(s)
  IN [gotoNth(p, p.currentSlide - 1) EXCEPT !.nav = "prev"]

pausePlay_noToggle(s) ==
  IF ~inited THEN [pause(s) EXCEPT !.threw = TRUE]
  ELSE [pause(s) EXCEPT !.pauseIcon = "0", !.playIcon = "1"]

\* pausePlay(): the icons are null until init() has created them
pausePlay(s) ==
  LET t == IF s.isPlaying THEN pause(s) ELSE play(s)
  IN IF ~inited THEN [t EXCEPT !.threw = TRUE]
     ELSE [t EXCEPT !.pauseIcon = IF s.isPlaying THEN "0" ELSE "1",
                    !.playIcon = IF s.isPlaying THEN "1" ELSE "0"]

\* #indicatorClick(e): k = 0 is a click on the container itself, k > 0 on its k-th child
indicatorClick(s, k) ==
  IF k = 0 THEN s
  ELSE [gotoNth(pause(s), indicatorChildren[k]) EXCEPT !.nav = "goto"]

mouseenterHandler_noOption(s) ==
  IF s.isPlaying THEN pause(s) ELSE s

\* #mouseenterHandler; #setListeners attaches it only when pauseOnHover is set
mouseenterHandler(s) ==
  IF pauseOnHover /\ s.isPlaying THEN pause(s) ELSE s

mouseleaveHandler_inverted(s) ==
  IF pauseOnHover /\ s.isPlaying THEN play(s) ELSE s

\* #mouseleaveHandler
mouseleaveHandler(s) ==
  IF pauseOnHover /\ ~s.isPlaying THEN play(s) ELSE s

handleSwipe_strict(s, sx, ex) ==
  LET difference == sx - ex
  IN IF Abs(difference) <= swipeThreshold THEN s
     ELSE IF difference > 0 THEN next(s) ELSE prev(s)

\* SwipeCarousel.#handleSwipe() with #startX = sx, #endX = ex
handleSwipe(s, sx, ex) ==
  LET difference == sx - ex
  IN IF Abs(difference) < swipeThreshold THEN s
     ELSE IF difference > 0 THEN next(s) ELSE prev(s)

keydownHandler_swapped(s, code) ==
  CASE code = "ArrowLeft" -> next(s)
    [] code = "ArrowRight" -> prev(s)
    [] code = "Space" -> pausePlay([s EXCEPT !.prevented = TRUE])
    [] OTHER -> s

\* #keydownHandler(e) with e.code = code
keydownHandler(s, code) ==
  CASE code = "ArrowLeft" -> prev(s)
    [] code = "ArrowRight" -> next(s)
    [] code = "Space" -> pausePlay([s EXCEPT !.prevented = TRUE])
    [] OTHER -> s

\* #createControls(): new icons, shown according to isPlaying
createControls(s) ==
  [s EXCEPT !.pauseIcon = IF s.isPlaying THEN "1" ELSE "0",
            !.playIcon = IF s.isPlaying THEN "0" ELSE "1"]

\* #createIndicators(): generated or found in the page, the first one is made active
createIndicators(s) ==
  [s EXCEPT !.activeIndicators = IF Len(indicatorChildren) > 0 THEN {0} ELSE {}]

\* init() (SwipeCarousel.init adds the swipe listeners)
init(s) ==
  LET c == createIndicators(createControls(s))
  IN IF c.isPlaying THEN startTimer(c) ELSE c

\* ------------------------------------------------------------------ actions

\* write the object back and record the history of the event
Commit(ev, s, pb) ==
  /\ currentSlide' = s.currentSlide
  /\ timerId' = s.timerId
  /\ isPlaying' = s.isPlaying
  /\ timers' = s.timers
  /\ threw' = s.threw
  /\ pauseIcon' = s.pauseIcon
  /\ playIcon' = s.playIcon
  /\ activeSlides' = s.activeSlides
  /\ activeIndicators' = s.activeIndicators
  /\ defaultPrevented' = s.prevented
  /\ lastNav' = s.nav
  /\ lastEvent' = ev
  /\ wasPlaying' = isPlaying
  /\ pausedBy' = pb
  /\ beforeCall' = (IF ev \in {"next", "prev"} THEN currentSlide ELSE s.currentSlide)
  /\ LET continues == ev = lastEvent /\ runLen < MaxSlides
     IN IF ev \in {"next", "prev"}
        THEN /\ runLen' = (IF continues THEN runLen + 1 ELSE 1)
             /\ runStart' = (IF continues THEN runStart ELSE currentSlide)
        ELSE /\ runLen' = 0
             /\ runStart' = s.currentSlide
  /\ UNCHANGED <<slideCount, pauseOnHover, TIMER_INTERVAL, hasContainer, markup>>

\* new SwipeCarousel(options): options.isPlaying, options.pauseOnHover and the
\* page's slides are the inputs
Constructed ==
  /\ slideCount \in 0..MaxSlides
  /\ pauseOnHover \in BOOLEAN
  /\ isPlaying \in BOOLEAN
  /\ inited = FALSE
  /\ currentSlide = 0
  /\ timerId = NoTimer
  /\ timers = {}
  /\ startX = 0
  /\ endX = 0
  /\ pauseIcon = "none"
  /\ playIcon = "none"
  /\ activeSlides = (IF slideCount > 0 THEN {0} ELSE {})
  /\ activeIndicators = {}
  /\ defaultPrevented = FALSE
  /\ lastEvent = "constructor"
  /\ lastNav = "none"
  /\ threw = FALSE
  /\ wasPlaying = isPlaying
  /\ pausedBy = "none"
  /\ beforeCall = 0
  /\ runLen = 0
  /\ runStart = 0

\* a page without indicators of its own: init() generates them
Init ==
  /\ hasContainer = FALSE
  /\ markup = << >>
  /\ TIMER_INTERVAL = DefaultInterval
  /\ Constructed

\* the same page, options.interval given by the caller
InitConfig ==
  /\ hasContainer = FALSE
  /\ markup = << >>
  /\ TIMER_INTERVAL \in Intervals
  /\ Constructed

\* a page that already holds an #indicators-container: init() adopts its children
InitPage ==
  /\ hasContainer = TRUE
  /\ markup \in ExistingMarkups
  /\ TIMER_INTERVAL = DefaultInterval
  /\ Constructed

\* init(): a repeated call re-attaches the same listeners and restarts the timer
InitCall ==
  /\ inited' = TRUE
  /\ Commit("init", init(self), pausedBy)
  /\ UNCHANGED <<startX, endX>>

\* next(), the next button
Next_ ==
  /\ Commit("next", next(self), "nav")
  /\ UNCHANGED <<inited, startX, endX>>

\* prev(), the previous button
Prev ==
  /\ Commit("prev", prev(self), "nav")
  /\ UNCHANGED <<inited, startX, endX>>

Pause ==
  /\ Commit("pause", pause(self), "manual")
  /\ UNCHANGED <<inited, startX, endX>>

Play ==
  /\ Commit("play", play(self), "none")
  /\ UNCHANGED <<inited, startX, endX>>

\* pausePlay(), the pause button
PausePlay ==
  /\ Commit("pausePlay", pausePlay(self), IF isPlaying THEN "manual" ELSE "none")
  /\ UNCHANGED <<inited, startX, endX>>

\* click inside #indicatorsContainer; a listener added again by a repeated init()
\* runs the same pause-and-goto a second time, which changes nothing further
IndicatorClick(k) ==
  /\ inited
  /\ Commit("indicator", indicatorClick(self, k), IF k = 0 THEN pausedBy ELSE "nav")
  /\ UNCHANGED <<inited, startX, endX>>

MouseEnter ==
  /\ inited
  /\ Commit("mouseenter", mouseenterHandler(self),
            IF pauseOnHover /\ isPlaying THEN "hover" ELSE pausedBy)
  /\ UNCHANGED <<inited, startX, endX>>

MouseLeave ==
  /\ inited
  /\ Commit("mouseleave", mouseleaveHandler(self), pausedBy)
  /\ UNCHANGED <<inited, startX, endX>>

\* #touchStartHandler / #mouseDownHandler
TouchStart(x) ==
  /\ inited
  /\ startX' = x
  /\ Commit("touchstart", self, pausedBy)
  /\ UNCHANGED <<inited, endX>>

MouseDown(x) ==
  /\ inited
  /\ startX' = x
  /\ Commit("mousedown", self, pausedBy)
  /\ UNCHANGED <<inited, endX>>

\* #touchEndHandler / #mouseUpHandler
TouchEnd(x) ==
  /\ inited
  /\ endX' = x
  /\ LET s == handleSwipe(self, startX, x)
     IN Commit("touchend", s, IF s.nav = "none" THEN pausedBy ELSE "nav")
  /\ UNCHANGED <<inited, startX>>

MouseUp(x) ==
  /\ inited
  /\ endX' = x
  /\ LET s == handleSwipe(self, startX, x)
     IN Commit("mouseup", s, IF s.nav = "none" THEN pausedBy ELSE "nav")
  /\ UNCHANGED <<inited, startX>>

\* keydown on the document
KeyDown(code) ==
  /\ inited
  /\ Commit(code, keydownHandler(self, code),
            CASE code \in {"ArrowLeft", "ArrowRight"} -> "nav"
              [] code = "Space" -> IF isPlaying THEN "manual" ELSE "none"
              [] OTHER -> pausedBy)
  /\ UNCHANGED <<inited, startX, endX>>

\* the interval callback of a scheduled timer
Tick ==
  /\ \E t \in timers :
       Commit("tick", [gotoNth(self, currentSlide + 1) EXCEPT !.nav = "auto"], pausedBy)
  /\ UNCHANGED <<inited, startX, endX>>

Next ==
  \/ InitCall
  \/ Next_
  \/ Prev
  \/ Pause
  \/ Play
  \/ PausePlay
  \/ \E k \in 0..Len(indicatorChildren) : IndicatorClick(k)
  \/ MouseEnter
  \/ MouseLeave
  \/ \E x \in PageXs : TouchStart(x)
  \/ \E x \in PageXs : MouseDown(x)
  \/ \E x \in PageXs : TouchEnd(x)
  \/ \E x \in PageXs : MouseUp(x)
  \/ \E code \in KeyCodes : KeyDown(code)
  \/ Tick

Spec == Init /\ [][Next]_vars

SpecPage == InitPage /\ [][Next]_vars

SpecConfig == InitConfig /\ [][Next]_vars

\* the documented use: init() once, right after construction, then events
NextNav ==
  \/ ~inited /\ InitCall
  \/ inited /\ Next_
  \/ inited /\ Prev
  \/ inited /\ Pause
  \/ inited /\ Play
  \/ inited /\ PausePlay
  \/ \E k \in 0..Len(indicatorChildren) : IndicatorClick(k)
  \/ MouseEnter
  \/ MouseLeave
  \/ \E x \in PageXs : TouchStart(x)
  \/ \E x \in PageXs : MouseDown(x)
  \/ \E x \in PageXs : TouchEnd(x)
  \/ \E x \in PageXs : MouseUp(x)
  \/ \E code \in KeyCodes : KeyDown(code)
  \/ inited /\ Tick

SpecNav == Init /\ [][NextNav]_vars

\* setInterval keeps invoking the callback of a scheduled interval
SpecLive == Init /\ [][Next]_vars /\ WF_vars(Tick)

\* ------------------------------------------------------------------- claims

ManualNavs == {"next", "prev", "goto"}

\* C1: with slideCount > 0 and generated indicators, after init() the current
\* slide index is always within 0..slideCount-1 (it wraps, it is never out of range)
Thm_C1 ==
  (inited /\ slideCount > 0 /\ ~hasContainer) => currentSlide \in 0..(slideCount - 1)

\* prev() on slide 0 has wrapped to the last slide
Wit_C1 ==
  /\ inited /\ ~hasContainer /\ slideCount >= 2
  /\ lastNav = "prev" /\ ~threw /\ currentSlide = slideCount - 1

\* C2: a click on an indicator carrying any integer v (negative or >= slideCount
\* included) sets the index to v mod slideCount, a value in 0..slideCount-1
Cex_C2 ==
  [][\A k \in 1..Len(indicatorChildren) :
       (/\ IndicatorClick(k)
        /\ slideCount > 0
        /\ currentSlide \in 0..(slideCount - 1)
        /\ currentSlide < Len(indicatorChildren))
       => currentSlide' = indicatorChildren[k] % slideCount]_vars

\* C3: at most one interval is ever scheduled, it is the one #timerId names, and
\* play() (also while PLAYING) leaves exactly one
Thm_C3 ==
  /\ Cardinality(timers) <= 1
  /\ timers = (IF timerId = NoTimer THEN {} ELSE {timerId})
  /\ (lastEvent = "play" => Cardinality(timers) = 1)

\* play() was called while already PLAYING
Wit_C3 ==
  lastEvent = "play" /\ wasPlaying /\ isPlaying /\ Cardinality(timers) = 1

\* C4: after every manual navigation (next, prev, indicator click, passing swipe),
\* from PLAYING or PAUSED and also when the index change fails, the controller is
\* PAUSED: isPlaying is false and no timer is scheduled
Thm_C4 ==
  lastNav \in ManualNavs => (~isPlaying /\ timers = {} /\ timerId = NoTimer)

\* next() was called while PLAYING and moved the index
Wit_C4 ==
  lastEvent = "next" /\ lastNav = "next" /\ wasPlaying /\ ~threw /\ ~isPlaying

\* C5: with pauseOnHover, a hover-leave that follows a manual pause (pause() or
\* pausePlay() before or during the hover) leaves the controller PAUSED, no timer
Cex_C5 ==
  [][(/\ MouseLeave
      /\ pauseOnHover
      /\ slideCount > 0
      /\ pausedBy = "manual"
      /\ lastEvent \in {"mouseenter", "pause", "pausePlay"})
     => (~isPlaying' /\ timers' = {})]_vars

\* C6: after a manual navigation auto-play stays suspended (not PLAYING, no timer
\* that could tick) until play() or pausePlay() resumes it; hover events do not
Cex_C6 ==
  (pausedBy = "nav" /\ inited /\ slideCount > 0) => (~isPlaying /\ timers = {})

\* C7: with pauseOnHover, hover-enter while PLAYING pauses (timer cancelled) and
\* the hover-leave right after it resumes with exactly one timer; the index stays
Thm_C7 ==
  [][/\ (MouseEnter /\ pauseOnHover /\ isPlaying)
          => (/\ ~isPlaying'
              /\ timers' = {}
              /\ timerId' = NoTimer
              /\ currentSlide' = currentSlide)
     /\ (MouseLeave /\ pauseOnHover /\ lastEvent = "mouseenter" /\ wasPlaying)
          => (/\ isPlaying'
              /\ Cardinality(timers') = 1
              /\ timers' = {timerId'}
              /\ currentSlide' = currentSlide)]_vars

\* hover-leave has resumed a hover-induced pause
Wit_C7 ==
  /\ pauseOnHover /\ lastEvent = "mouseleave" /\ pausedBy = "hover"
  /\ ~wasPlaying /\ isPlaying /\ Cardinality(timers) = 1

\* C8: a gesture end with diff = startX - endX: |diff| < 100 navigates nowhere and
\* leaves index, play state and timer alone; |diff| >= 100 is next() when diff > 0
\* and prev() when diff < 0; 100 is a swipe, 99 is not
Thm_C8 ==
  [][\A x \in PageXs :
       (MouseUp(x) \/ TouchEnd(x)) =>
         LET diff == startX - x
             after == <<currentSlide', isPlaying', timerId', timers', threw'>>
             Of(s) == <<s.currentSlide, s.isPlaying, s.timerId, s.timers, s.threw>>
         IN /\ (Abs(diff) < 100) =>
                 (lastNav' = "none" /\ UNCHANGED <<currentSlide, isPlaying, timerId, timers>>)
            /\ (Abs(diff) >= 100 /\ diff > 0) => (lastNav' = "next" /\ after = Of(next(self)))
            /\ (Abs(diff) >= 100 /\ diff < 0) => (lastNav' = "prev" /\ after = Of(prev(self)))
            /\ (Abs(diff) = 100) => lastNav' \in {"next", "prev"}
            /\ (Abs(diff) = 99) => lastNav' = "none"]_vars

\* a gesture of exactly 100 px to the left has called next()
Wit_C8 ==
  /\ lastEvent \in {"mouseup", "touchend"} /\ startX - endX = 100
  /\ lastNav = "next" /\ ~threw /\ ~isPlaying

\* C9: on an initialised carousel whose current slide and indicator exist, next()
\* sets the index to (i + 1) mod slideCount and prev() to (i - 1) mod slideCount
Thm_C9 ==
  [][(/\ inited
      /\ slideCount > 0
      /\ currentSlide \in 0..(slideCount - 1)
      /\ currentSlide < Len(indicatorChildren))
     => /\ Next_ => currentSlide' = (currentSlide + 1) % slideCount
        /\ Prev => currentSlide' = (currentSlide - 1) % slideCount]_vars

\* 3 slides: prev() from slide 0 has gone to slide 2
Wit_C9 ==
  lastEvent = "prev" /\ slideCount = 3 /\ currentSlide = 2 /\ ~threw /\ ~hasContainer

\* C10 as stated: from construction onwards isPlaying holds iff a timer is scheduled
Cex_C10 ==
  isPlaying <=> timers # {}

\* C10 amended: once any method has been called on the constructed controller,
\* isPlaying holds iff a timer is scheduled (and iff #timerId names it)
Thm_C10 ==
  lastEvent # "constructor" =>
    /\ isPlaying <=> timers # {}
    /\ isPlaying <=> timerId # NoTimer

\* init() on a controller constructed with isPlaying = true has started the timer
Wit_C10 ==
  lastEvent = "init" /\ wasPlaying /\ isPlaying /\ timers = {timerId} /\ timerId # NoTimer

\* the fields a caller can observe through the controller
Core(s) == <<s.currentSlide, s.isPlaying, s.timerId, s.timers>>

\* C11: with an empty slide set next(), prev() and a timer tick are no-ops or
\* raise an error and leave isPlaying, the timer handle and the index as they were
Cex_C11 ==
  [][(inited /\ slideCount = 0 /\ TIMER_INTERVAL > 0 /\ (Next_ \/ Prev \/ Tick))
     => UNCHANGED <<currentSlide, isPlaying, timerId, timers>>]_vars

\* C12: a controller constructed with no slides and isPlaying, or with an interval
\* <= 0, is never initialised: init() wires nothing and schedules no timer
Cex_C12 ==
  [][(/\ InitCall
      /\ lastEvent = "constructor"
      /\ (TIMER_INTERVAL <= 0 \/ (slideCount = 0 /\ isPlaying)))
     => (~inited' /\ timers' = {})]_vars

\* C13: pausePlay() flips isPlaying: from PLAYING to PAUSED with no timer, from
\* PAUSED to PLAYING with one timer; a second call right after restores isPlaying;
\* the index is never changed
Thm_C13 ==
  [][PausePlay =>
       /\ isPlaying' = ~isPlaying
       /\ isPlaying => (timers' = {} /\ timerId' = NoTimer)
       /\ ~isPlaying => (Cardinality(timers') = 1 /\ timers' = {timerId'})
       /\ currentSlide' = currentSlide
       /\ (lastEvent = "pausePlay") => (isPlaying' = wasPlaying)]_vars

\* pausePlay() has resumed a paused, initialised carousel
Wit_C13 ==
  /\ lastEvent = "pausePlay" /\ inited /\ ~threw
  /\ ~wasPlaying /\ isPlaying /\ Cardinality(timers) = 1 /\ pauseIcon = "1"

\* C14: keydown ArrowLeft acts as prev(), ArrowRight as next(), Space as pausePlay()
\* with the default action prevented; any other key changes nothing
Thm_C14 ==
  [][\A code \in KeyCodes :
       KeyDown(code) =>
         LET after == <<currentSlide', isPlaying', timerId', timers'>>
             icons == <<pauseIcon', playIcon'>>
         IN /\ (code = "ArrowLeft") =>
                 (after = Core(prev(self)) /\ lastNav' = "prev" /\ threw' = prev(self).threw)
            /\ (code = "ArrowRight") =>
                 (after = Core(next(self)) /\ lastNav' = "next" /\ threw' = next(self).threw)
            /\ (code = "Space") =>
                 /\ after = Core(pausePlay(self))
                 /\ icons = <<pausePlay(self).pauseIcon, pausePlay(self).playIcon>>
                 /\ defaultPrevented'
            /\ (code \notin {"ArrowLeft", "ArrowRight", "Space"}) =>
                 /\ UNCHANGED <<currentSlide, isPlaying, timerId, timers, pauseIcon, playIcon>>
                 /\ ~defaultPrevented']_vars

\* ArrowLeft on slide 0 has gone to the last slide
Wit_C14 ==
  /\ lastEvent = "ArrowLeft" /\ lastNav = "prev" /\ ~threw
  /\ slideCount >= 2 /\ currentSlide = slideCount - 1

\* C15: on an initialised carousel whose current slide and indicator exist a tick
\* while PLAYING advances the index by one modulo slideCount and keeps isPlaying
\* and the one timer; while PAUSED no tick changes the index
Thm_C15 ==
  [][/\ (/\ Tick
         /\ isPlaying
         /\ inited
         /\ slideCount > 0
         /\ currentSlide \in 0..(slideCount - 1)
         /\ currentSlide < Len(indicatorChildren))
        => (/\ currentSlide' = (currentSlide + 1) % slideCount
            /\ isPlaying'
            /\ Cardinality(timers') = 1
            /\ UNCHANGED <<timerId, timers>>)
     /\ (Tick /\ ~isPlaying) => currentSlide' = currentSlide]_vars

\* a tick on the last slide has wrapped to slide 0
Wit_C15 ==
  /\ lastEvent = "tick" /\ inited /\ ~threw /\ wasPlaying /\ isPlaying
  /\ slideCount >= 2 /\ currentSlide = 0

\* C16: play(), pause(), pausePlay() and the hover events keep the index; nothing
\* changes slideCount, the interval or pauseOnHover; pause() while PAUSED changes
\* nothing
Thm_C16 ==
  [][/\ (Play \/ Pause \/ PausePlay \/ MouseEnter \/ MouseLeave)
          => currentSlide' = currentSlide
     /\ UNCHANGED <<slideCount, TIMER_INTERVAL, pauseOnHover>>
     /\ (Pause /\ ~isPlaying)
          => UNCHANGED <<currentSlide, isPlaying, timerId, timers, pauseIcon, playIcon,
                         activeSlides, activeIndicators>>]_vars

\* play() was called on a slide other than the first
Wit_C16 ==
  lastEvent = "play" /\ inited /\ isPlaying /\ currentSlide # 0 /\ ~wasPlaying

\* C17: without pauseOnHover the hover events change neither isPlaying nor the
\* timer nor the index
Thm_C17 ==
  [][((MouseEnter \/ MouseLeave) /\ ~pauseOnHover)
     => UNCHANGED <<isPlaying, timerId, timers, currentSlide>>]_vars

\* hover-enter on a PLAYING carousel without pauseOnHover: it keeps playing
Wit_C17 ==
  /\ ~pauseOnHover /\ lastEvent = "mouseenter" /\ wasPlaying
  /\ isPlaying /\ Cardinality(timers) = 1

\* C18: after init() the pause icon is shown and the play icon hidden exactly when
\* isPlaying, and the reverse when not
Cex_C18 ==
  (inited /\ slideCount > 0 /\ TIMER_INTERVAL > 0) =>
    /\ pauseIcon = (IF isPlaying THEN "1" ELSE "0")
    /\ playIcon = (IF isPlaying THEN "0" ELSE "1")

\* C19: init() once after construction, then any events: with slideCount > 0 and
\* generated indicators exactly the slide and the indicator at currentSlide are active
Thm_C19 ==
  (inited /\ slideCount > 0) =>
    (activeSlides = {currentSlide} /\ activeIndicators = {currentSlide})

\* an indicator click has moved the marks from slide 0 to the last slide
Wit_C19 ==
  /\ inited /\ lastNav = "goto" /\ slideCount >= 3 /\ currentSlide = slideCount - 1
  /\ activeSlides = {slideCount - 1} /\ activeIndicators = {slideCount - 1}

\* C20: if from some point on the initialised carousel is PLAYING and only timer
\* ticks occur, every slide index below slideCount is current again and again
Thm_C20 ==
  \A i \in 0..(MaxSlides - 1) :
    (<>[](lastEvent = "tick" /\ inited /\ isPlaying /\ i < slideCount))
      => []<>(currentSlide = i)

\* auto-play has reached the last of at least two slides
Wit_C20 ==
  /\ lastEvent = "tick" /\ inited /\ ~threw /\ wasPlaying /\ isPlaying
  /\ slideCount >= 2 /\ currentSlide = slideCount - 1

\* C21: on an initialised carousel with slideCount > 0, prev() right after next()
\* and next() right after prev() restore the index, and slideCount calls of next()
\* in a row (or of prev()) end on the index they started from
Thm_C21 ==
  [][(inited /\ slideCount > 0) =>
       /\ (Prev /\ lastEvent = "next") => currentSlide' = beforeCall
       /\ (Next_ /\ lastEvent = "prev") => currentSlide' = beforeCall
       /\ ((Next_ \/ Prev) /\ runLen' = slideCount) => currentSlide' = runStart']_vars

\* three next() calls in a row on three slides, begun on slide 1, are back on slide 1
Wit_C21 ==
  /\ inited /\ lastEvent = "next" /\ ~threw /\ slideCount = 3
  /\ runLen = 3 /\ runStart = 1 /\ currentSlide = 1

\* C22: a gesture end (mouseup / touchend) that directly follows another gesture
\* end, with no mousedown / touchstart in between, navigates nowhere and does not
\* pause auto-play
Cex_C22 ==
  [][\A x \in PageXs :
       (/\ MouseUp(x) \/ TouchEnd(x)
        /\ lastEvent \in {"mouseup", "touchend"}
        /\ slideCount > 1)
       => (lastNav' = "none" /\ UNCHANGED <<currentSlide, isPlaying, timerId, timers>>)]_vars

====
